---- MODULE Spec2Model ----
(***************************************************************************)
(* RF link budget CGI program (src/link_budget.cpp): the file-backed       *)
(* Session class, input validation, the received-power calculation and     *)
(* main()'s request/response cycle.                                        *)
(*                                                                         *)
(* Modelling conventions                                                   *)
(*  - A C++ string is a sequence of one-character strings.                 *)
(*  - A double is a decimal fraction mag/den with a sign bit (den a power  *)
(*    of ten), or an infinity, or a NaN.  Arithmetic is exact on the       *)
(*    decimal value; binary representation error is outside the model.     *)
(*  - A session file holds either bytes json::parse rejects, or a JSON     *)
(*    document.  nlohmann's dump()/parse() are taken to be faithful on    *)
(*    the documents the program writes (objects of ASCII strings and an    *)
(*    integer), so a written document is read back as the same value.      *)
(***************************************************************************)
EXTENDS Integers, Sequences, FiniteSets, TLC

(***************************************************************************)
(* Bounds of the model.                                                    *)
(***************************************************************************)
MaxLen == 3          \* longest raw string given to validate_input on its own
MaxTicks == 2        \* how many times the clock advances in a behaviour
MaxLine == 7         \* longest input line given to parse_cgi_input on its own

SESSION_EXPIRY == 3600

(***************************************************************************)
(* Strings.                                                                *)
(***************************************************************************)
Digits == {"0", "1", "2", "3", "4", "5", "6", "7", "8", "9"}

DigitVal(c) ==
    CASE c = "0" -> 0 [] c = "1" -> 1 [] c = "2" -> 2 [] c = "3" -> 3
      [] c = "4" -> 4 [] c = "5" -> 5 [] c = "6" -> 6 [] c = "7" -> 7
      [] c = "8" -> 8 [] c = "9" -> 9

DigitChar(d) ==
    CASE d = 0 -> "0" [] d = 1 -> "1" [] d = 2 -> "2" [] d = 3 -> "3"
      [] d = 4 -> "4" [] d = 5 -> "5" [] d = 6 -> "6" [] d = 7 -> "7"
      [] d = 8 -> "8" [] d = 9 -> "9"

RECURSIVE Pow10(_)
Pow10(n) == IF n = 0 THEN 1 ELSE 10 * Pow10(n - 1)

\* The decimal digits of a natural number, most significant first.
RECURSIVE NatToDigits(_)
NatToDigits(n) ==
    IF n < 10 THEN <<DigitChar(n)>>
    ELSE Append(NatToDigits(n \div 10), DigitChar(n % 10))

\* The value of a run of decimal digits.
RECURSIVE DigitsToNat(_)
DigitsToNat(s) ==
    IF s = <<>> THEN 0
    ELSE 10 * DigitsToNat(SubSeq(s, 1, Len(s) - 1)) + DigitVal(s[Len(s)])

\* s has the characters of t starting at index i.
HasAt(s, i, t) ==
    /\ i + Len(t) - 1 <= Len(s)
    /\ \A j \in 1..Len(t) : s[i + j - 1] = t[j]

\* The length of the longest run of characters of set C in s starting at i.
RunLen(s, i, C) ==
    CHOOSE n \in 0..(Len(s) - i + 1) :
        /\ \A j \in i..(i + n - 1) : s[j] \in C
        /\ (i + n <= Len(s) => s[i + n] \notin C)

(***************************************************************************)
(* Doubles.                                                                *)
(***************************************************************************)
Fin(neg, mag, den) == [k |-> "fin", neg |-> neg, mag |-> mag, den |-> den]
Inf(neg) == [k |-> "inf", neg |-> neg]
NaN(neg) == [k |-> "nan", neg |-> neg]
FromInt(n) == IF n < 0 THEN Fin(TRUE, 0 - n, 1) ELSE Fin(FALSE, n, 1)

\* The signed numerator of a finite double over its denominator.
Signed(x) == IF x.neg THEN 0 - x.mag ELSE x.mag

\* a < b as IEEE-754 compares: false whenever an operand is a NaN.
NumLess(a, b) ==
    CASE a.k = "nan" \/ b.k = "nan" -> FALSE
      [] a.k = "inf" /\ b.k = "inf" -> a.neg /\ ~b.neg
      [] a.k = "inf" -> a.neg
      [] b.k = "inf" -> ~b.neg
      [] OTHER -> Signed(a) * b.den < Signed(b) * a.den

NumNeg(a) == [a EXCEPT !.neg = ~a.neg]

\* a + b; a NaN operand propagates, the first one when both are.
NumAdd(a, b) ==
    CASE a.k = "nan" -> a
      [] b.k = "nan" -> b
      [] a.k = "inf" /\ b.k = "inf" -> IF a.neg = b.neg THEN a ELSE NaN(TRUE)
      [] a.k = "inf" -> a
      [] b.k = "inf" -> b
      [] OTHER ->
           LET den == IF a.den >= b.den THEN a.den ELSE b.den
               n   == Signed(a) * (den \div a.den) + Signed(b) * (den \div b.den)
           IN  IF n = 0 THEN Fin(a.neg /\ b.neg, 0, den)
               ELSE IF n < 0 THEN Fin(TRUE, 0 - n, den)
               ELSE Fin(FALSE, n, den)

NumSub(a, b) == IF b.k = "nan" THEN NumAdd(a, b) ELSE NumAdd(a, NumNeg(b))

(***************************************************************************)
(* std::stod(value, &pos): leading white space, an optional sign, then     *)
(* "inf", "nan" or decimal digits with an optional point.  The characters  *)
(* the model feeds it have no exponent and no hexadecimal prefix, so the   *)
(* std::out_of_range outcome of stod is not produced.                      *)
(***************************************************************************)
Stod(s) ==
    LET ws  == RunLen(s, 1, {" "})
        neg == HasAt(s, ws + 1, <<"-">>)
        st  == IF neg \/ HasAt(s, ws + 1, <<"+">>) THEN ws + 2 ELSE ws + 1
        ip  == RunLen(s, st, Digits)
        dot == HasAt(s, st + ip, <<".">>)
        fp  == IF dot THEN RunLen(s, st + ip + 1, Digits) ELSE 0
    IN  CASE HasAt(s, st, <<"i", "n", "f">>) ->
               [ok |-> TRUE, num |-> Inf(neg),
                pos |-> IF HasAt(s, st, <<"i", "n", "f", "i", "n", "i", "t", "y">>)
                        THEN st + 7 ELSE st + 2]
          [] HasAt(s, st, <<"n", "a", "n">>) ->
               [ok |-> TRUE, num |-> NaN(neg), pos |-> st + 2]
          [] ip + fp = 0 -> [ok |-> FALSE]
          [] OTHER ->
               [ok |-> TRUE,
                num |-> Fin(neg, DigitsToNat(SubSeq(s, st, st + ip - 1)) * Pow10(fp)
                                 + DigitsToNat(SubSeq(s, st + ip + 1, st + ip + fp)),
                            Pow10(fp)),
                pos |-> (st - 1) + ip + (IF dot THEN 1 + fp ELSE 0)]

(***************************************************************************)
(* validate_input(name, value, min, max): what it throws, or nothing.      *)
(* The runtime_error thrown inside the try block is neither of the two     *)
(* caught types, so it leaves the function as thrown.                      *)
(***************************************************************************)
NoThrow == [thrown |-> FALSE]
Throw(name, what) == [thrown |-> TRUE, name |-> name, what |-> what]

\* Lines 154-167, r being what stod(value, &pos) did.
ValidateConverted(name, value, min, max, r) ==
    IF ~r.ok THEN Throw(name, "must be a valid number")
    ELSE IF r.pos # Len(value) THEN Throw(name, "must be a valid number")
    ELSE IF NumLess(r.num, FromInt(min)) \/ NumLess(FromInt(max), r.num)
         THEN Throw(name, "must be between")
    ELSE NoThrow

validate_input(name, value, min, max) ==
    IF value = <<>> THEN Throw(name, "is required")
    ELSE ValidateConverted(name, value, min, max, Stod(value))

(***************************************************************************)
(* The six fields main() validates, in order, with their bounds.           *)
(***************************************************************************)
Fields ==
    << [key |-> "tx_power",        name |-> "Transmit Power",        min |-> 0 - 30, max |-> 60],
       [key |-> "tx_gain",         name |-> "Transmit Antenna Gain", min |-> 0 - 20, max |-> 50],
       [key |-> "free_space_loss", name |-> "Free Space Loss",       min |-> 0,      max |-> 200],
       [key |-> "misc_loss",       name |-> "Miscellaneous Loss",    min |-> 0,      max |-> 50],
       [key |-> "rx_gain",         name |-> "Receiver Antenna Gain", min |-> 0 - 20, max |-> 50],
       [key |-> "rx_loss",         name |-> "Receiver Loss",         min |-> 0,      max |-> 50] >>

(***************************************************************************)
(* round(received_power * 100.0) / 100.0: std::round rounds halfway cases  *)
(* away from zero and keeps the sign of its argument (also of a zero).     *)
(***************************************************************************)
Round2(x) ==
    IF x.k # "fin" THEN x
    ELSE LET scaled == x.mag * 100
             q      == scaled \div x.den
             r      == scaled % x.den
         IN  Fin(x.neg, IF 2 * r >= x.den THEN q + 1 ELSE q, 100)

\* received_power with the receiver antenna gain subtracted.
received_power_GainSubtracted(v) ==
    Round2(NumSub(NumSub(NumSub(NumSub(NumAdd(v[1], v[2]), v[3]), v[4]), v[5]), v[6]))

\* received_power of lines 221-222 from the six converted doubles.
received_power(v) ==
    Round2(NumSub(NumAdd(NumSub(NumSub(NumAdd(v[1], v[2]), v[3]), v[4]), v[5]), v[6]))

(***************************************************************************)
(* std::to_string(double): printf's "%f", six digits after the point.      *)
(***************************************************************************)
Sign(x) == IF x.neg THEN <<"-">> ELSE <<>>

\* The n digits of m, zero-padded on the left.
RECURSIVE PadDigits(_, _)
PadDigits(m, n) ==
    IF n = 0 THEN <<>> ELSE Append(PadDigits(m \div 10, n - 1), DigitChar(m % 10))

\* main() applies it to a value already rounded to hundredths, so here the
\* denominator divides 10^6 and the six digits are exact.
to_string(x) ==
    CASE x.k = "nan" -> Sign(x) \o <<"n", "a", "n">>
      [] x.k = "inf" -> Sign(x) \o <<"i", "n", "f">>
      [] OTHER ->
           Sign(x) \o NatToDigits(x.mag \div x.den) \o <<".">>
                   \o PadDigits((x.mag % x.den) * (1000000 \div x.den), 6)

(***************************************************************************)
(* parse_cgi_input(): repeated regex_search over the input line for a key  *)
(* (one or more characters other than "&" and "="), then "=", then a value *)
(* (characters other than "&").  The expression tells "&" and "=" from     *)
(* every other character only, so a line is a sequence of symbols in which *)
(* a field name is one symbol.  A match starts at the first character of a *)
(* maximal run of non-separators that is followed by "="; its value runs   *)
(* to the next "&".                                                        *)
(***************************************************************************)
\* The length of the longest run of characters outside C in s starting at i.
RunLenNot(s, i, C) ==
    CHOOSE n \in 0..(Len(s) - i + 1) :
        /\ \A j \in i..(i + n - 1) : s[j] \notin C
        /\ (i + n <= Len(s) => s[i + n] \in C)

MatchesAt(s, i) ==
    LET n == RunLenNot(s, i, {"&", "="})
    IN  n >= 1 /\ i + n <= Len(s) /\ s[i + n] = "="

regex_search(s, start) ==
    LET starts == {i \in start..Len(s) : MatchesAt(s, i)}
    IN  IF starts = {} THEN [found |-> FALSE]
        ELSE LET i == CHOOSE x \in starts : \A y \in starts : x <= y
                 n == RunLenNot(s, i, {"&", "="})
                 m == RunLenNot(s, i + n + 1, {"&"})
             IN  [found  |-> TRUE,
                  key    |-> SubSeq(s, i, i + n - 1),
                  val    |-> SubSeq(s, i + n + 1, i + n + m),
                  suffix |-> i + n + 1 + m]

\* data.insert({key, val}) on a std::map: a key already present keeps its value.
MapPut_KeepFirst(data, key, val) ==
    [k \in DOMAIN data \cup {key} |->
        IF k \in DOMAIN data THEN data[k] ELSE val]

\* data[key] = val on a std::map.
MapPut(data, key, val) ==
    [k \in DOMAIN data \cup {key} |-> IF k = key THEN val ELSE data[k]]

\* input[key] on a std::map: a key that is absent reads as the empty string.
MapGet(data, key) == IF key \in DOMAIN data THEN data[key] ELSE <<>>

EmptyMap == [k \in {} |-> <<>>]

RECURSIVE regex_loop(_, _, _)
regex_loop(s, start, data) ==
    LET match == regex_search(s, start)
    IN  IF ~match.found THEN data
        ELSE regex_loop(s, match.suffix, MapPut(data, match.key, match.val))

parse_cgi_input(line) == regex_loop(line, 1, EmptyMap)

(***************************************************************************)
(* nlohmann::json values and the operations the Session class applies.     *)
(***************************************************************************)
JNull == [j |-> "null"]
JNum(n) == [j |-> "num", n |-> n]
JStr(s) == [j |-> "str", s |-> s]
JObj(o) == [j |-> "obj", o |-> o]
EmptyObj == JObj([k \in {} |-> JNull])

\* data.contains(key)
JContains(d, key) == d.j = "obj" /\ key \in DOMAIN d.o

\* data[key] = value: a null becomes an object; any other non-object throws.
JAssign(d, key, v) ==
    CASE d.j = "null" -> [thrown |-> FALSE, val |-> JObj([k \in {key} |-> v])]
      [] d.j = "obj"  ->
           [thrown |-> FALSE,
            val |-> JObj([k \in DOMAIN d.o \cup {key} |-> IF k = key THEN v ELSE d.o[k]])]
      [] OTHER -> [thrown |-> TRUE]

\* session_data[key] read through the non-const operator[].
JIndex(d, key) ==
    CASE d.j = "null" -> [thrown |-> FALSE, val |-> JNull]
      [] d.j = "obj"  ->
           [thrown |-> FALSE, val |-> IF key \in DOMAIN d.o THEN d.o[key] ELSE JNull]
      [] OTHER -> [thrown |-> TRUE]

\* A data.clear() that leaves the value as it is.
JClear_KeepsData(d) == d

\* data.clear()
JClear(d) ==
    CASE d.j = "obj" -> EmptyObj
      [] d.j = "str" -> JStr(<<>>)
      [] d.j = "num" -> JNum(0)
      [] OTHER -> d

(***************************************************************************)
(* Session files.  A file is absent, or holds bytes json::parse rejects    *)
(* (an empty or cut-off file among them), or holds a JSON document.        *)
(***************************************************************************)
NoFile == [t |-> "nofile"]
Garbage == [t |-> "garbage"]
Doc(v) == [t |-> "json", v |-> v]

\* A file an ofstream has opened and not yet written to: it holds no bytes.
Empty == [t |-> "empty"]

\* The number of characters of the decimal numeral of n.
RECURSIVE NumeralSize(_)
NumeralSize(n) ==
    IF n < 0 THEN 1 + NumeralSize(0 - n)
    ELSE IF n < 10 THEN 1 ELSE 1 + NumeralSize(n \div 10)

\* The number of bytes of v.dump().
RECURSIVE DumpSize(_)
RECURSIVE MembersSize(_, _)
MembersSize(o, ks) ==
    IF ks = {} THEN 0
    ELSE LET k == CHOOSE x \in ks : TRUE
         IN  Len(k) + 3 + DumpSize(o[k])
               + (IF ks = {k} THEN 0 ELSE 1 + MembersSize(o, ks \ {k}))
DumpSize(v) ==
    CASE v.j = "null" -> 4
      [] v.j = "num"  -> NumeralSize(v.n)
      [] v.j = "str"  -> Len(v.s) + 2
      [] OTHER        -> 2 + MembersSize(v.o, DOMAIN v.o)

\* An identifier as the names between its "/" characters.  The identifiers
\* of the model hold no "/", but for "./a".
Components(id) == IF id = "./a" THEN <<".", "a">> ELSE <<id>>

\* The file a path below SESSION_DIR names once the file system has looked
\* it up: a component "." names the directory it stands in.
RECURSIVE Lookup(_)
Lookup(parts) ==
    IF parts = <<>> THEN <<>>
    ELSE IF Head(parts) = "." THEN Lookup(Tail(parts))
    ELSE <<Head(parts)>> \o Lookup(Tail(parts))

\* Session::get_file_path: SESSION_DIR + id + ".json", as the file that
\* ofstream and ifstream open for it.
get_file_path(id) == Lookup(Components(id))

(***************************************************************************)
(* class Session.  A session object is [id, data, last_accessed].          *)
(***************************************************************************)
NoSession == [id |-> ""]

\* Session::is_expired
is_expired(s, t) == t - s.last_accessed > SESSION_EXPIRY

\* Session::save: the file of s after the write.
save(s, fs) ==
    [fs EXCEPT ![get_file_path(s.id)] =
        Doc(JObj([k \in {"data", "last_accessed"} |->
                    IF k = "data" THEN s.data ELSE JNum(s.last_accessed)]))]

\* ofstream file(path) that opens the file for appending: what it holds stays.
ofstream_open_Append(fs, path) == fs

\* Session::save, its first statement: ofstream file(get_file_path()) creates
\* the file or cuts it to no bytes.
ofstream_open(fs, path) == [fs EXCEPT ![path] = Empty]

\* Session::save, from file << session_data.dump() to file.close(): the bytes
\* of the record of s land at the start of the file as it is by then.  A file
\* that holds more bytes than that keeps its tail, which json::parse rejects;
\* how many bytes a Garbage file holds is not known.  The set of outcomes.
ofstream_write(fs, s) ==
    LET path == get_file_path(s.id)
        cur  == fs[path]
        new  == save(s, fs)
        cut  == [fs EXCEPT ![path] = Garbage]
    IN  CASE cur.t = "garbage" -> {new, cut}
          [] cur.t = "json" /\ DumpSize(cur.v) > DumpSize(new[path].v) -> {cut}
          [] OTHER -> {new}

\* load that also clears a record exactly SESSION_EXPIRY seconds old.
load_ExpiresAtThreshold(id, fs, t, u) ==
    LET f    == fs[get_file_path(id)]
        d    == IF f.t = "json" THEN JIndex(f.v, "data") ELSE [thrown |-> TRUE]
        la   == IF f.t = "json" /\ ~d.thrown THEN JIndex(f.v, "last_accessed")
                ELSE [thrown |-> TRUE]
    IN  CASE f.t = "nofile" ->
               [thrown |-> FALSE, s |-> [id |-> id, data |-> JNull, last_accessed |-> u]]
          [] f.t = "garbage" -> [thrown |-> TRUE]
          [] d.thrown \/ la.thrown -> [thrown |-> TRUE]
          [] la.val.j # "num" -> [thrown |-> TRUE]
          [] OTHER ->
               [thrown |-> FALSE,
                s |-> [id |-> id,
                       data |-> IF t - la.val.n >= SESSION_EXPIRY
                                THEN JClear(d.val) ELSE d.val,
                       last_accessed |-> la.val.n]]

\* Session::load on a session whose members are still as constructed
\* (data null, last_accessed not initialised: u is what the member holds).
load(id, fs, t, u) ==
    LET f    == fs[get_file_path(id)]
        d    == IF f.t = "json" THEN JIndex(f.v, "data") ELSE [thrown |-> TRUE]
        la   == IF f.t = "json" /\ ~d.thrown THEN JIndex(f.v, "last_accessed")
                ELSE [thrown |-> TRUE]
    IN  CASE f.t = "nofile" ->
               [thrown |-> FALSE, s |-> [id |-> id, data |-> JNull, last_accessed |-> u]]
          [] f.t = "garbage" -> [thrown |-> TRUE]
          [] d.thrown \/ la.thrown -> [thrown |-> TRUE]
          [] la.val.j # "num" -> [thrown |-> TRUE]
          [] OTHER ->
               [thrown |-> FALSE,
                s |-> [id |-> id,
                       data |-> IF t - la.val.n > SESSION_EXPIRY
                                THEN JClear(d.val) ELSE d.val,
                       last_accessed |-> la.val.n]]

\* Session(session_id) that gives the session of an expired record a newly
\* generated identifier.
Session_RenewOnExpiry(session_id, uuid, fs, t, u) ==
    IF session_id = ""
    THEN [thrown |-> FALSE, s |-> [id |-> uuid, data |-> JNull, last_accessed |-> t]]
    ELSE IF load(session_id, fs, t, u).thrown THEN load(session_id, fs, t, u)
    ELSE IF is_expired(load(session_id, fs, t, u).s, t)
    THEN [thrown |-> FALSE,
          s |-> [load(session_id, fs, t, u).s EXCEPT !.id = uuid]]
    ELSE load(session_id, fs, t, u)

\* Session::Session(session_id); uuid is what generate_session_id returns.
Session(session_id, uuid, fs, t, u) ==
    IF session_id = ""
    THEN [thrown |-> FALSE, s |-> [id |-> uuid, data |-> JNull, last_accessed |-> t]]
    ELSE load(session_id, fs, t, u)

\* set that changes the object and leaves the file as it was.
set_Unsaved(s, key, value, fs, t) ==
    LET a == JAssign(s.data, key, JStr(value))
    IN  IF a.thrown THEN [thrown |-> TRUE, s |-> s, fs |-> fs]
        ELSE [thrown |-> FALSE,
              s |-> [s EXCEPT !.data = a.val, !.last_accessed = t],
              fs |-> fs]

\* Session::set
set(s, key, value, fs, t) ==
    LET a == JAssign(s.data, key, JStr(value))
    IN  IF a.thrown THEN [thrown |-> TRUE, s |-> s, fs |-> fs]
        ELSE LET s2 == [s EXCEPT !.data = a.val, !.last_accessed = t]
             IN  [thrown |-> FALSE, s |-> s2, fs |-> save(s2, fs)]

\* get that refreshes last_accessed in the object and does not save.
get_Unsaved(s, key, default_value, fs, t) ==
    IF JContains(s.data, key)
    THEN LET s2 == [s EXCEPT !.last_accessed = t]
         IN  IF s.data.o[key].j = "str"
             THEN [thrown |-> FALSE, s |-> s2, fs |-> fs, ret |-> s.data.o[key].s]
             ELSE [thrown |-> TRUE, s |-> s2, fs |-> fs, ret |-> <<>>]
    ELSE [thrown |-> FALSE, s |-> s, fs |-> fs, ret |-> default_value]

\* Session::get
get(s, key, default_value, fs, t) ==
    IF JContains(s.data, key)
    THEN LET s2 == [s EXCEPT !.last_accessed = t]
         IN  IF s.data.o[key].j = "str"
             THEN [thrown |-> FALSE, s |-> s2, fs |-> save(s2, fs), ret |-> s.data.o[key].s]
             ELSE [thrown |-> TRUE, s |-> s2, fs |-> save(s2, fs), ret |-> <<>>]
    ELSE [thrown |-> FALSE, s |-> s, fs |-> fs, ret |-> default_value]

(***************************************************************************)
(* State.                                                                  *)
(***************************************************************************)
VARIABLES
    files,      \* the session directory: file name -> contents
    now,        \* what time(nullptr) returns
    minted,     \* identifiers generate_session_id has returned
    session,    \* process -> its Session object (NoSession: none constructed)
    pc,         \* process -> where main() is
    cookie,     \* process -> the session_id cookie of its request
    out,        \* process -> the line read and what main() has written in response
    pre,        \* process -> the session file when the request began, and the time
    obj,        \* handle -> a Session object held by a caller of the class
    op,         \* the Session member function called last on a handle
    hist,       \* file name -> the last set of TrackedKey in that session
    standing,   \* handle -> how its object stands to that set
    vin,        \* the arguments of a validate_input call
    vout        \* what that call did

vars == <<files, now, minted, session, pc, cookie, out, pre, obj, op, hist,
          standing, vin, vout>>

\* Spec runs main() one request after another, in one process slot; a caller
\* of the Session class holds up to two objects at once.
Procs == {1}
Handles == {1, 2}

\* Identifiers a client sends, and those generate_session_id can return.
CookieIds == {"a"}
Uuids == {"u1"}
AllIds == CookieIds \cup Uuids
\* Identifiers only the callers of the Session class use: another spelling
\* of the file of "a", and an unrelated one.
MoreIds == {"./a", "b"}
Paths == {get_file_path(i) : i \in AllIds \cup MoreIds}

Keys == {"last_calculation", "theme"}

\* The record an earlier request left: its result was -70.
P0 == <<"-", "7", "0", ".", "0", "0", "0", "0", "0", "0">>
NoPrevious ==
    <<"N", "o", " ", "p", "r", "e", "v", "i", "o", "u", "s", " ",
      "c", "a", "l", "c", "u", "l", "a", "t", "i", "o", "n">>

Record(data, t) ==
    Doc(JObj([k \in {"data", "last_accessed"} |-> IF k = "data" THEN data ELSE JNum(t)]))

\* What the file of a client's identifier may hold before the first request.
InitRecords ==
    { NoFile, Garbage, Doc(EmptyObj),
      Record(EmptyObj, 0),
      Record(JObj([k \in {"last_calculation"} |-> JStr(P0)]), 0) }

\* The clock advances by a second or by the expiry period.
TickSteps == {1, SESSION_EXPIRY}
TicksOf(t) == (t \div SESSION_EXPIRY) + (t % SESSION_EXPIRY)

\* Values an uninitialised time_t member may hold, relative to the clock.
Uninit(t) == {t - SESSION_EXPIRY - 1, t}

NoOut == [set_cookie |-> "", header_at |-> 0, line |-> <<>>, result |-> <<>>,
          retrieved |-> <<>>, previous |-> <<>>, error |-> NoThrow]
NoPre == [file |-> NoFile, t |-> 0]
NoOp == [name |-> "none"]
NoHist == [has |-> FALSE]
NoCall == [called |-> FALSE]

InitCommon ==
    /\ files \in {f \in [Paths -> InitRecords] :
                    \A q \in Paths \ {get_file_path(i) : i \in CookieIds} :
                        f[q] = NoFile}
    /\ now = 0
    /\ minted = {}
    /\ session = [p \in Procs |-> NoSession]
    /\ pc = [p \in Procs |-> "idle"]
    /\ cookie = [p \in Procs |-> ""]
    /\ out = [p \in Procs |-> NoOut]
    /\ pre = [p \in Procs |-> NoPre]
    /\ obj = [h \in Handles |-> NoSession]
    /\ op = NoOp
    /\ hist = [f \in Paths |-> NoHist]
    /\ standing = [h \in Handles |-> "none"]
    /\ vout = NoCall

Tick ==
    /\ \E d \in TickSteps :
         /\ TicksOf(now) < MaxTicks
         /\ now' = now + d
    /\ UNCHANGED <<files, minted, session, pc, cookie, out, pre, obj, hist,
                   standing, vin, vout>>
    /\ op' = NoOp

(***************************************************************************)
(* html_escape                                                             *)
(***************************************************************************)
RECURSIVE html_escape(_)
html_escape(data) ==
    IF data = <<>> THEN <<>>
    ELSE LET c == Head(data)
             e == CASE c = "&"  -> <<"&", "a", "m", "p", ";">>
                    [] c = "\"" -> <<"&", "q", "u", "o", "t", ";">>
                    [] c = "'"  -> <<"&", "#", "3", "9", ";">>
                    [] c = "<"  -> <<"&", "l", "t", ";">>
                    [] c = ">"  -> <<"&", "g", "t", ";">>
                    [] OTHER    -> <<c>>
         IN  e \o html_escape(Tail(data))

(***************************************************************************)
(* The request bodies the model submits: one line of six fields, each      *)
(* field drawn from a few raw values, and two lines of other shapes.       *)
(***************************************************************************)
FieldChoices ==
    << { <<"2", "0">>, <<"1", "0", "0">>, <<"n", "a", "n">>,
         <<"2", "0", ".", "1", "2", "5">> },
       { <<"1", "0">>, <<>> },
       { <<"1", "2", "0">>, <<"1", "2", "x">> },
       { <<"2">> },
       { <<"1", "5">>, <<"-", "2", "5">> },
       { <<"1">> } >>

MkLine(v) ==
    <<"tx_power", "=">> \o v[1] \o <<"&", "tx_gain", "=">> \o v[2]
      \o <<"&", "free_space_loss", "=">> \o v[3] \o <<"&", "misc_loss", "=">> \o v[4]
      \o <<"&", "rx_gain", "=">> \o v[5] \o <<"&", "rx_loss", "=">> \o v[6]

InputLines ==
    { MkLine(<<a, b, c, d, e, f>>) :
        a \in FieldChoices[1], b \in FieldChoices[2], c \in FieldChoices[3],
        d \in FieldChoices[4], e \in FieldChoices[5], f \in FieldChoices[6] }
      \cup { <<>>,
             <<"tx_power", "=", "1", "0", "0", "&">>
               \o MkLine(<<<<"2", "0">>, <<"1", "0">>, <<"1", "2", "0">>, <<"2">>,
                           <<"1", "5">>, <<"1">>>>) }

(***************************************************************************)
(* main(), one process per request.                                        *)
(***************************************************************************)
\* Lines 181-188: the cookie is read and the Session object constructed.  An
\* exception leaving the constructor is caught nowhere: the process ends.
Open(p) ==
    /\ \A q \in Procs : pc[q] = "idle"
    /\ \E session_id \in AllIds \cup {""}, uuid \in Uuids, u \in Uninit(now) :
         /\ session_id = "" => uuid \notin minted /\ files[get_file_path(uuid)] = NoFile
         /\ LET r == Session(session_id, uuid, files, now, u)
            IN  /\ cookie' = [cookie EXCEPT ![p] = session_id]
                /\ minted' = IF session_id = "" THEN minted \cup {uuid} ELSE minted
                /\ pre' = [pre EXCEPT ![p] =
                             [file |-> files[get_file_path(IF session_id = "" THEN uuid
                                                           ELSE session_id)],
                              t |-> now]]
                /\ IF r.thrown
                   THEN /\ pc' = [pc EXCEPT ![p] = "aborted"]
                        /\ UNCHANGED session
                   ELSE /\ pc' = [pc EXCEPT ![p] = "opened"]
                        /\ session' = [session EXCEPT ![p] = r.s]
    /\ UNCHANGED <<files, now, out, obj, op, hist, standing, vin, vout>>

\* Lines 190-199: the Set-Cookie header.
Header(p) ==
    /\ pc[p] = "opened"
    /\ out' = [out EXCEPT ![p].set_cookie =
                                 IF cookie[p] = "" \/ is_expired(session[p], now)
                                 THEN session[p].id ELSE "",
                             ![p].header_at = now]
    /\ pc' = [pc EXCEPT ![p] = "body"]
    /\ UNCHANGED <<files, now, minted, session, cookie, pre, obj, op, hist,
                   standing, vin, vout>>

\* Lines 205-210 from field i on: the first exception thrown, or none.
RECURSIVE ValidateFrom(_, _)
ValidateFrom(input, i) ==
    IF i > Len(Fields) THEN NoThrow
    ELSE IF validate_input(Fields[i].name, MapGet(input, <<Fields[i].key>>),
                           Fields[i].min, Fields[i].max).thrown
    THEN validate_input(Fields[i].name, MapGet(input, <<Fields[i].key>>),
                        Fields[i].min, Fields[i].max)
    ELSE ValidateFrom(input, i + 1)

\* Lines 213-222 once the validation has thrown e or nothing.
Calculate(input, e) ==
    IF e.thrown THEN [error |-> e]
    ELSE [error |-> NoThrow,
          received_power |->
              received_power([i \in 1..6 |-> Stod(MapGet(input, <<Fields[i].key>>)).num])]

\* Lines 202-222 on the parsed input.
ComputeInput(input) == Calculate(input, ValidateFrom(input, 1))

\* Lines 202-222 on an input line: the exception the validation throws, or
\* the rounded received power.
Compute(line) == ComputeInput(parse_cgi_input(line))

\* Compute on the lines the model submits, evaluated once.
Computed == [line \in InputLines |-> Compute(line)]

\* Lines 228-238: the result is stored, then read back and compared.
StoreAndShow(s, text, fs, t) ==
    LET stored == set(s, "last_calculation", text, fs, t)
        got    == get(stored.s, "last_calculation", NoPrevious, stored.fs, t)
    IN  IF stored.thrown
        THEN [s |-> s, fs |-> fs, result |-> <<>>, retrieved |-> <<>>,
              previous |-> <<>>, error |-> Throw("json", "type_error")]
        ELSE [s |-> got.s, fs |-> got.fs, result |-> text,
              retrieved |-> got.ret,
              previous |-> IF got.ret # text THEN html_escape(got.ret) ELSE <<>>,
              error |-> NoThrow]

\* RespondTo that refreshes and saves the session when validation fails.
RespondTo_TouchOnError(s, c, fs, t) ==
    IF c.error.thrown
    THEN [s |-> [s EXCEPT !.last_accessed = t],
          fs |-> save([s EXCEPT !.last_accessed = t], fs),
          result |-> <<>>, retrieved |-> <<>>, previous |-> <<>>, error |-> c.error]
    ELSE StoreAndShow(s, to_string(c.received_power), fs, t)

\* Lines 201-246 once lines 202-222 have given c: the response, the session
\* object and the files afterwards.
RespondTo(s, c, fs, t) ==
    IF c.error.thrown
    THEN [s |-> s, fs |-> fs, result |-> <<>>, retrieved |-> <<>>,
          previous |-> <<>>, error |-> c.error]
    ELSE StoreAndShow(s, to_string(c.received_power), fs, t)

\* What lines 201-246 do with an input line.
Respond(s, line, fs, t) == RespondTo(s, Computed[line], fs, t)

Body(p) ==
    /\ pc[p] = "body"
    /\ \E line \in InputLines :
         \E r \in {Respond(session[p], line, files, now)} :
             /\ session' = [session EXCEPT ![p] = r.s]
             /\ files' = r.fs
             /\ out' = [out EXCEPT ![p].line = line,
                                   ![p].result = r.result,
                                   ![p].retrieved = r.retrieved,
                                   ![p].previous = r.previous,
                                   ![p].error = r.error]
    /\ pc' = [pc EXCEPT ![p] = "done"]
    /\ UNCHANGED <<now, minted, cookie, pre, obj, op, hist, standing, vin, vout>>

\* The process is gone; the next request starts another.
Exit(p) ==
    /\ pc[p] \in {"done", "aborted"}
    /\ pc' = [pc EXCEPT ![p] = "idle"]
    /\ session' = [session EXCEPT ![p] = NoSession]
    /\ cookie' = [cookie EXCEPT ![p] = ""]
    /\ out' = [out EXCEPT ![p] = NoOut]
    /\ pre' = [pre EXCEPT ![p] = NoPre]
    /\ UNCHANGED <<files, now, minted, obj, op, hist, standing, vin, vout>>

Init == InitCommon /\ vin = NoCall

Next ==
    \/ Tick
    \/ \E p \in Procs : Open(p)
    \/ \E p \in Procs : Header(p)
    \/ \E p \in Procs : Body(p)
    \/ \E p \in Procs : Exit(p)

Spec == Init /\ [][Next]_vars

(***************************************************************************)
(* validate_input on its own: every string of at most MaxLen characters    *)
(* over VChars, against the bounds of each of the six fields.              *)
(***************************************************************************)
VChars == {" ", "-", "0", "2", "5", ".", "n", "a", "i", "f"}
RawStrings == UNION {[1..n -> VChars] : n \in 0..MaxLen}

InitValidate ==
    /\ InitCommon
    /\ files = [f \in Paths |-> NoFile]
    /\ \E i \in 1..6, s \in RawStrings :
         vin = [called |-> TRUE, name |-> Fields[i].name, value |-> s,
                min |-> Fields[i].min, max |-> Fields[i].max]

Validate ==
    /\ vin.called /\ ~vout.called
    /\ vout' = [called |-> TRUE,
                r |-> validate_input(vin.name, vin.value, vin.min, vin.max)]
    /\ UNCHANGED <<files, now, minted, session, pc, cookie, out, pre, obj, op, hist,
                   standing, vin>>

SpecValidate == InitValidate /\ [][Validate]_vars

(***************************************************************************)
(* parse_cgi_input on its own: every line of at most MaxLine characters    *)
(* over LineChars, as getline reads it from the request body.              *)
(***************************************************************************)
LineChars == {"k", "1", "=", "&"}
Lines == UNION {[1..n -> LineChars] : n \in 0..MaxLine}

InitParse ==
    /\ InitCommon
    /\ files = [f \in Paths |-> NoFile]
    /\ \E s \in Lines : vin = [called |-> TRUE, line |-> s]

ParseInput ==
    /\ vin.called /\ ~vout.called
    /\ vout' = [called |-> TRUE, r |-> parse_cgi_input(vin.line)]
    /\ UNCHANGED <<files, now, minted, session, pc, cookie, out, pre, obj, op, hist,
                   standing, vin>>

SpecParse == InitParse /\ [][ParseInput]_vars

(***************************************************************************)
(* The Session class on its own: callers hold up to two Session objects    *)
(* at once and call the member functions main() calls, in any order.       *)
(***************************************************************************)
P1 == <<"-", "7", "8", ".", "0", "0", "0", "0", "0", "0">>
ApiValues == {P1}
ApiDefaults == {<<>>}

(***************************************************************************)
(* Bookkeeping for the round trip of TrackedKey.  hist[f] is the last      *)
(* set(TrackedKey, v) made on file f: v, the time, and whether an object   *)
(* that was already open on f at that set has written f since.             *)
(* standing[h] says how the object of h stands to that set:                *)
(*   "setter"     it made the set                                          *)
(*   "stale"      it was open on f when the set was made                   *)
(*   "later"      opened afterwards, within SESSION_EXPIRY seconds         *)
(*   "clobbered"  as "later", after a stale object had written f          *)
(*   "late"       opened more than SESSION_EXPIRY seconds afterwards       *)
(*   "none"       no object, or no set on its file before it opened        *)
(***************************************************************************)
TrackedKey == "last_calculation"

\* h has written file f.
MarkWrite(hs, f, h) ==
    IF hs[f].has /\ standing[h] = "stale" THEN [hs EXCEPT ![f].ok = FALSE] ELSE hs

\* Session object(session_id), session_id one of ids or none; op records the
\* identifier supplied.
ApiOpen(h, ids) ==
    /\ obj[h] = NoSession
    /\ \E session_id \in ids, uuid \in Uuids, u \in Uninit(now) :
         /\ session_id = "" => uuid \notin minted /\ files[get_file_path(uuid)] = NoFile
         /\ LET r == Session(session_id, uuid, files, now, u)
                e == hist[get_file_path(r.s.id)]
            IN  /\ minted' = IF session_id = "" THEN minted \cup {uuid} ELSE minted
                /\ obj' = IF r.thrown THEN obj ELSE [obj EXCEPT ![h] = r.s]
                /\ standing' =
                     IF r.thrown \/ ~e.has THEN standing
                     ELSE [standing EXCEPT ![h] =
                             IF now - e.t > SESSION_EXPIRY THEN "late"
                             ELSE IF e.ok THEN "later" ELSE "clobbered"]
         /\ op' = [name |-> "open", h |-> h, arg |-> session_id]
    /\ UNCHANGED <<files, now, session, pc, cookie, out, pre, hist, vin, vout>>

\* object.set(key, value), key and value drawn from keys and values.
ApiSetOf(h, keys, values) ==
    /\ obj[h] # NoSession
    /\ \E key \in keys, value \in values :
         LET f == get_file_path(obj[h].id)
             r == set(obj[h], key, value, files, now)
         IN  /\ obj' = [obj EXCEPT ![h] = r.s]
             /\ files' = r.fs
             /\ IF r.thrown THEN UNCHANGED <<hist, standing>>
                ELSE IF key # TrackedKey
                THEN hist' = MarkWrite(hist, f, h) /\ UNCHANGED standing
                ELSE /\ hist' = [hist EXCEPT ![f] =
                                   [has |-> TRUE, v |-> value, t |-> now, ok |-> TRUE]]
                     /\ standing' =
                          [g \in Handles |->
                             IF g = h THEN "setter"
                             ELSE IF obj[g] # NoSession /\ get_file_path(obj[g].id) = f
                             THEN "stale" ELSE standing[g]]
    /\ op' = NoOp
    /\ UNCHANGED <<now, minted, session, pc, cookie, out, pre, vin, vout>>

\* object.set(key, value)
ApiSet(h) == ApiSetOf(h, Keys, ApiValues)

\* object.get(key, default_value); op records the call and what it returned.
ApiGet(h) ==
    /\ obj[h] # NoSession
    /\ \E key \in Keys, default_value \in ApiDefaults :
         LET f == get_file_path(obj[h].id)
             r == get(obj[h], key, default_value, files, now)
         IN  /\ obj' = [obj EXCEPT ![h] = r.s]
             /\ files' = r.fs
             /\ hist' = IF JContains(obj[h].data, key) THEN MarkWrite(hist, f, h)
                        ELSE hist
             /\ op' = [name |-> "get", h |-> h, key |-> key, arg |-> default_value,
                       ret |-> r.ret]
    /\ UNCHANGED <<now, minted, session, pc, cookie, out, pre, standing, vin, vout>>

\* object.save()
ApiSave(h) ==
    /\ obj[h] # NoSession
    /\ files' = save(obj[h], files)
    /\ hist' = MarkWrite(hist, get_file_path(obj[h].id), h)
    /\ op' = NoOp
    /\ UNCHANGED <<now, minted, session, pc, cookie, out, pre, obj, standing,
                   vin, vout>>

\* The object goes out of scope; the destructor writes nothing.
ApiClose(h) ==
    /\ obj[h] # NoSession
    /\ obj' = [obj EXCEPT ![h] = NoSession]
    /\ standing' = [standing EXCEPT ![h] = "none"]
    /\ op' = NoOp
    /\ UNCHANGED <<files, now, minted, session, pc, cookie, out, pre, hist,
                   vin, vout>>

NextSession ==
    \/ Tick
    \/ \E h \in Handles : ApiOpen(h, CookieIds)
    \/ \E h \in Handles : ApiSet(h)
    \/ \E h \in Handles : ApiGet(h)
    \/ \E h \in Handles : ApiClose(h)

SpecSession == Init /\ [][NextSession]_vars

(***************************************************************************)
(* One caller of the Session class that opens sessions under several       *)
(* identifiers, one after another, and stores under each identifier a      *)
(* value that names it.                                                    *)
(***************************************************************************)
CallerIds == CookieIds \cup MoreIds
\* Identifiers a caller opens a session with: the two spellings of one file,
\* or none (an identifier is generated).
OpenIds == {"a", "./a", ""}
IdValue(id) == <<id>>

NextIds ==
    \/ Tick
    \/ ApiOpen(1, OpenIds)
    \/ ApiSetOf(1, {TrackedKey}, {IdValue(obj[1].id)})
    \/ ApiGet(1)
    \/ ApiSave(1)
    \/ ApiClose(1)

SpecIds == Init /\ [][NextIds]_vars

(***************************************************************************)
(* Two invocations for the same identifier, running at once.  Each is a    *)
(* process of its own holding one Session object; save() takes two steps,  *)
(* the opening of the ofstream and the write at close, and the steps of     *)
(* the two processes interleave freely: the code takes no lock.             *)
(* pc[h] is "ready" or "saving"; pre[h] is, while h is saving, the file as  *)
(* it was before h opened it and whether no write has landed on it since.   *)
(***************************************************************************)
NoSaving == [before |-> NoFile, clean |-> FALSE]

InitRace ==
    /\ files \in {f \in [Paths -> InitRecords] :
                    \A q \in Paths \ {get_file_path(i) : i \in CookieIds} :
                        f[q] = NoFile}
    /\ now = 0
    /\ minted = {}
    /\ session = [p \in Procs |-> NoSession]
    /\ pc = [h \in Handles |-> "ready"]
    /\ cookie = [p \in Procs |-> ""]
    /\ out = [p \in Procs |-> NoOut]
    /\ pre = [h \in Handles |-> NoSaving]
    /\ obj = [h \in Handles |-> NoSession]
    /\ op = NoOp
    /\ hist = [f \in Paths |-> NoHist]
    /\ standing = [h \in Handles |-> "none"]
    /\ vin = NoCall
    /\ vout = NoCall

\* Session session(session_id) in process h: the constructor loads the file.
\* op records the file and what load found in it.  An exception ends h.
RaceLoad(h) ==
    /\ obj[h] = NoSession /\ pc[h] = "ready"
    /\ \E session_id \in CookieIds, uuid \in Uuids, u \in Uninit(now) :
         \E r \in {Session(session_id, uuid, files, now, u)} :
            /\ obj' = IF r.thrown THEN obj ELSE [obj EXCEPT ![h] = r.s]
            /\ op' = [name |-> "load", h |-> h, f |-> get_file_path(session_id),
                      seen |-> files[get_file_path(session_id)],
                      thrown |-> r.thrown]
    /\ UNCHANGED <<files, now, minted, session, pc, cookie, out, pre, hist,
                   standing, vin, vout>>

\* The ofstream of save() in process h is open on the file of s.
Saving(h, s) ==
    /\ obj' = [obj EXCEPT ![h] = s]
    /\ files' = ofstream_open(files, get_file_path(s.id))
    /\ pc' = [pc EXCEPT ![h] = "saving"]
    /\ pre' = [pre EXCEPT ![h] = [before |-> files[get_file_path(s.id)],
                                  clean |-> TRUE]]

\* session.set(key, value) in process h, up to the opening of the ofstream.
RaceSet(h) ==
    /\ obj[h] # NoSession /\ pc[h] = "ready"
    /\ \E value \in ApiValues :
         \E r \in {set(obj[h], TrackedKey, value, files, now)} :
            IF r.thrown
            THEN obj' = [obj EXCEPT ![h] = NoSession] /\ UNCHANGED <<files, pc, pre>>
            ELSE Saving(h, r.s)
    /\ op' = NoOp
    /\ UNCHANGED <<now, minted, session, cookie, out, hist, standing, vin, vout>>

\* session.get(key, "") in process h: with the key present, up to the opening
\* of the ofstream; with the key absent, the whole call.
RaceGet(h) ==
    /\ obj[h] # NoSession /\ pc[h] = "ready"
    /\ \E r \in {get(obj[h], TrackedKey, <<>>, files, now)} :
         /\ IF JContains(obj[h].data, TrackedKey) THEN Saving(h, r.s)
            ELSE UNCHANGED <<obj, files, pc, pre>>
         /\ op' = [name |-> "get", h |-> h, key |-> TrackedKey, arg |-> <<>>,
                   ret |-> r.ret]
    /\ UNCHANGED <<now, minted, session, cookie, out, hist, standing, vin, vout>>

\* The rest of save() in process h: the record is written and the file closed.
RaceWrite(h) ==
    /\ pc[h] = "saving"
    /\ files' \in ofstream_write(files, obj[h])
    /\ pc' = [pc EXCEPT ![h] = "ready"]
    /\ pre' = [g \in Handles |->
                 IF g = h THEN NoSaving
                 ELSE IF pc[g] = "saving"
                         /\ get_file_path(obj[g].id) = get_file_path(obj[h].id)
                 THEN [pre[g] EXCEPT !.clean = FALSE]
                 ELSE pre[g]]
    /\ op' = NoOp
    /\ UNCHANGED <<now, minted, session, cookie, out, obj, hist, standing, vin, vout>>

\* Process h ends.
RaceExit(h) ==
    /\ obj[h] # NoSession /\ pc[h] = "ready"
    /\ obj' = [obj EXCEPT ![h] = NoSession]
    /\ op' = NoOp
    /\ UNCHANGED <<files, now, minted, session, pc, cookie, out, pre, hist,
                   standing, vin, vout>>

NextRace ==
    \/ Tick
    \/ \E h \in Handles : RaceLoad(h)
    \/ \E h \in Handles : RaceSet(h)
    \/ \E h \in Handles : RaceGet(h)
    \/ \E h \in Handles : RaceWrite(h)
    \/ \E h \in Handles : RaceExit(h)

SpecRace == InitRace /\ [][NextRace]_vars

(***************************************************************************)
(* Properties.                                                             *)
(***************************************************************************)
\* A record with both fields, the mapping an object and the time a number.
WellFormed(f) ==
    /\ f.t = "json"
    /\ f.v.j = "obj"
    /\ {"data", "last_accessed"} \subseteq DOMAIN f.v.o
    /\ f.v.o["data"].j = "obj"
    /\ f.v.o["last_accessed"].j = "num"

\* A file that exists and cannot be parsed, or lacks a field.
Malformed(f) ==
    \/ f.t = "garbage"
    \/ /\ f.t = "json"
       /\ f.v.j = "obj"
       /\ ~({"data", "last_accessed"} \subseteq DOMAIN f.v.o)

StoredData(f) == f.v.o["data"]
StoredTime(f) == f.v.o["last_accessed"].n

\* The request of p found an unexpired record holding last_calculation.
HadPrevious(p) ==
    /\ cookie[p] # ""
    /\ WellFormed(pre[p].file)
    /\ pre[p].t - StoredTime(pre[p].file) <= SESSION_EXPIRY
    /\ JContains(StoredData(pre[p].file), "last_calculation")
    /\ StoredData(pre[p].file).o["last_calculation"].j = "str"

Previous(p) == StoredData(pre[p].file).o["last_calculation"].s

\* C1: a request with valid inputs whose unexpired record holds
\* last_calculation = prev retrieves prev from the session as the previous
\* calculation, and renders it whenever it differs from the new result.
C1_PreviousIsRetrieved ==
    \A p \in Procs :
        (pc[p] = "done" /\ ~out[p].error.thrown /\ HadPrevious(p))
            => /\ out[p].retrieved = Previous(p)
               /\ (Previous(p) # out[p].result
                     => out[p].previous = html_escape(Previous(p)))

\* C2 as stated: every get, the key present or absent, leaves last-accessed
\* at the current time and the record equal to the session's full state.
C2_GetAlwaysPersists ==
    op.name = "get"
        => LET s == obj[op.h]
           IN  /\ s.last_accessed = now
               /\ files[get_file_path(s.id)] = Record(s.data, now)

\* C2, amended: get(key, default) on a session whose mapping holds key
\* returns the stored value, sets last-accessed to the current time and
\* writes the full state to the record; when the key is absent it returns
\* default and changes neither the session nor any record.
C2_GetPersistsWhenPresent ==
    [][op'.name = "get"
         => LET h == op'.h
                f == get_file_path(obj[h].id)
            IN  IF JContains(obj[h].data, op'.key)
                THEN /\ op'.ret = obj[h].data.o[op'.key].s
                     /\ obj'[h] = [obj[h] EXCEPT !.last_accessed = now]
                     /\ files' = [files EXCEPT ![f] = Record(obj[h].data, now)]
                ELSE /\ op'.ret = op'.arg
                     /\ obj' = obj
                     /\ files' = files]_vars

\* A get of a key set an hour or more ago returned it and refreshed the
\* record.
C2_Witness ==
    /\ op.name = "get"
    /\ op.ret = P0
    /\ now >= SESSION_EXPIRY
    /\ files[get_file_path(obj[op.h].id)] = Record(obj[op.h].data, now)

\* C3: opening a session with a supplied identifier that has no record gives
\* a session with that identifier, an empty mapping and last-accessed equal to
\* the current time, so that it is not expired right after the open.
C3_NoRecordOpensFresh ==
    \A p \in Procs :
        (pc[p] = "opened" /\ cookie[p] # "" /\ pre[p].file = NoFile)
            => /\ session[p].id = cookie[p]
               /\ ~JContains(session[p].data, "last_calculation")
               /\ session[p].last_accessed = pre[p].t
               /\ ~is_expired(session[p], pre[p].t)

\* C4: a malformed record raises no error: the session opens with no prior
\* state and the request goes on to parse, validate and answer.
C4_MalformedRecordFallsBack ==
    \A p \in Procs :
        (cookie[p] # "" /\ Malformed(pre[p].file))
            => /\ pc[p] # "aborted"
               /\ (pc[p] = "opened" => session[p].data \in {JNull, EmptyObj})

\* C5: Set-Cookie is sent exactly when the request had no session_id cookie or
\* the loaded record's last-accessed was more than 3600 seconds old; with a
\* supplied identifier that has no record it is not sent.
C5_SetCookieIff ==
    \A p \in Procs :
        pc[p] \in {"body", "done"}
            => /\ (out[p].set_cookie # "")
                     <=> \/ cookie[p] = ""
                         \/ /\ WellFormed(pre[p].file)
                            /\ out[p].header_at - StoredTime(pre[p].file) > SESSION_EXPIRY
               /\ (out[p].set_cookie # "" => out[p].set_cookie = session[p].id)

\* C6: opening an existing well-formed record gives a session with the
\* supplied identifier and the stored time; its mapping is empty when the
\* record is more than 3600 seconds old and the stored mapping otherwise.
C6_LoadExpiry ==
    \A p \in Procs :
        (pc[p] = "opened" /\ cookie[p] # "" /\ WellFormed(pre[p].file))
            => /\ session[p].id = cookie[p]
               /\ session[p].last_accessed = StoredTime(pre[p].file)
               /\ session[p].data =
                    IF pre[p].t - StoredTime(pre[p].file) > SESSION_EXPIRY
                    THEN EmptyObj ELSE StoredData(pre[p].file)

\* A record exactly 3600 seconds old was opened and kept its mapping.
C6_Witness ==
    \E p \in Procs :
        /\ pc[p] = "opened" /\ cookie[p] # "" /\ WellFormed(pre[p].file)
        /\ pre[p].t - StoredTime(pre[p].file) = SESSION_EXPIRY
        /\ JContains(session[p].data, "last_calculation")

\* C7 as stated: after set(k, v), a get(k, default) on the same object, or on
\* an object opened later on the identifier and no more than 3600 seconds
\* after the set, returns v unless another set(k, .) came in between.
C7_RoundTrip ==
    (/\ op.name = "get"
     /\ op.key = TrackedKey
     /\ standing[op.h] \in {"setter", "later", "clobbered"})
        => op.ret = hist[get_file_path(obj[op.h].id)].v

\* C7, amended: the same, provided no object that was already open on the
\* identifier when the set was made has written the record between the set
\* and the re-open.
C7_RoundTripUnlessOverwritten ==
    (/\ op.name = "get"
     /\ op.key = TrackedKey
     /\ standing[op.h] \in {"setter", "later"})
        => op.ret = hist[get_file_path(obj[op.h].id)].v

\* An object opened after the set read the value back, 3600 seconds or more
\* after the set.
C7_Witness ==
    /\ op.name = "get"
    /\ op.key = TrackedKey
    /\ standing[op.h] = "later"
    /\ now - hist[get_file_path(obj[op.h].id)].t >= SESSION_EXPIRY
    /\ op.ret = P1

\* C8: a request that fails validation computes nothing and never calls set:
\* the record of its session is afterwards what it was before, and the
\* response carries the error and no result.
C8_ValidationFailureLeavesRecord ==
    \A p \in Procs :
        (pc[p] = "done" /\ out[p].error.thrown /\ out[p].error.name # "json")
            => /\ files[get_file_path(session[p].id)] = pre[p].file
               /\ out[p].result = <<>>
               /\ out[p].retrieved = <<>>
               /\ out[p].previous = <<>>

\* A request on an existing record failed validation.
C8_Witness ==
    \E p \in Procs :
        /\ pc[p] = "done" /\ out[p].error.thrown /\ out[p].error.name # "json"
        /\ WellFormed(pre[p].file)
        /\ out[p].error.what = "must be between"

\* The number a raw field denotes when all of it is a finite decimal numeral.
IsNumeral(s) ==
    /\ s # <<>>
    /\ Stod(s).ok
    /\ Stod(s).pos = Len(s)
    /\ Stod(s).num.k = "fin"

Within(s, min, max) ==
    LET x == Stod(s).num
    IN  min * x.den <= Signed(x) /\ Signed(x) <= max * x.den

\* C9: validate_input accepts a string only when it is non-empty, is a
\* number in its entirety and lies within [min, max]; otherwise it fails with
\* exactly one of the three kinds, and no NaN or infinity is accepted.
C9_ValidationTotalExclusive ==
    vout.called =>
        LET s      == vin.value
            entire == s # <<>> /\ Stod(s).ok /\ Stod(s).pos = Len(s)
        IN  IF ~vout.r.thrown
            THEN IsNumeral(s) /\ Within(s, vin.min, vin.max)
            ELSE /\ vout.r.name = vin.name
                 /\ vout.r.what \in {"is required", "must be a valid number",
                                     "must be between"}
                 /\ (vout.r.what = "is required") <=> (s = <<>>)
                 /\ (vout.r.what = "must be a valid number") <=> (s # <<>> /\ ~entire)
                 /\ (vout.r.what = "must be between")
                       <=> (entire /\ ~(IsNumeral(s) /\ Within(s, vin.min, vin.max)))

\* The raw value of field i in a submitted line.
RawField(line, i) == MapGet(parse_cgi_input(line), <<Fields[i].key>>)

AllWithinBounds(line) ==
    \A i \in 1..6 :
        /\ IsNumeral(RawField(line, i))
        /\ Within(RawField(line, i), Fields[i].min, Fields[i].max)

\* tx_power + tx_gain - free_space_loss - misc_loss + rx_gain - rx_loss in
\* thousandths, and that sum to the nearest hundredth (halves away from zero).
Thousandths(s) == Signed(Stod(s).num) * (1000 \div Stod(s).num.den)

ExactSum(line) ==
    Thousandths(RawField(line, 1)) + Thousandths(RawField(line, 2))
      - Thousandths(RawField(line, 3)) - Thousandths(RawField(line, 4))
      + Thousandths(RawField(line, 5)) - Thousandths(RawField(line, 6))

NearestHundredth(n) ==
    IF n >= 0 THEN (n + 5) \div 10 ELSE 0 - ((0 - n + 5) \div 10)

\* The text denotes h hundredths.
DenotesHundredths(text, h) ==
    /\ IsNumeral(text)
    /\ LET x == Stod(text).num
       IN  IF x.den >= 100 THEN Signed(x) = h * (x.den \div 100)
           ELSE Signed(x) * (100 \div x.den) = h

\* For each line submitted: whether all six inputs are within their bounds,
\* and then the hundredths the sum rounds to (evaluated once).
Expected ==
    [line \in InputLines |->
        IF AllWithinBounds(line)
        THEN [within |-> TRUE, hundredths |-> NearestHundredth(ExactSum(line))]
        ELSE [within |-> FALSE]]

\* C10: with all six inputs within their bounds the received power is the
\* sum tx_power + tx_gain - free_space_loss - misc_loss + rx_gain - rx_loss
\* rounded to two decimals, and that value is stored under last_calculation.
C10_ReceivedPower ==
    \A p \in Procs :
        (pc[p] = "done" /\ Expected[out[p].line].within)
            => /\ ~out[p].error.thrown
               /\ DenotesHundredths(out[p].result, Expected[out[p].line].hundredths)
               /\ WellFormed(files[get_file_path(session[p].id)])
               /\ JContains(StoredData(files[get_file_path(session[p].id)]),
                            "last_calculation")
               /\ StoredData(files[get_file_path(session[p].id)]).o["last_calculation"]
                    = JStr(out[p].result)

\* 20.125, 10, 120, 2, 15, 1 gave -77.88 (the sum is -77.875).
C10_Witness ==
    \E p \in Procs :
        /\ pc[p] = "done"
        /\ Expected[out[p].line].within
        /\ Expected[out[p].line].hundredths = 0 - 7788
        /\ out[p].result = <<"-", "7", "7", ".", "8", "8", "0", "0", "0", "0">>

\* C11: an operation on the session of identifier A leaves the record of
\* every other identifier B as it was (not created, changed or removed), and
\* a get on a session never returns a value that was set under another
\* identifier.
C11_CrossSessionIndependence ==
    [][/\ \A B \in CallerIds :
            (\A h \in Handles : obj[h].id # B /\ obj'[h].id # B)
                => files'[get_file_path(B)] = files[get_file_path(B)]
       /\ \A h \in Handles, A \in CallerIds :
            (op'.name = "get" /\ op'.h = h /\ op'.ret = IdValue(A))
                => obj[h].id = A]_vars

\* C12: a session keeps the identifier it was opened with (the one supplied,
\* or the one minted when none was): no load, set, get or save changes it, an
\* expired record included, and a file changes only if it is the record of an
\* open session's identifier.
C12_IdentifierNeverChanges ==
    [][/\ \A h \in Handles :
            /\ (op'.name = "open" /\ op'.h = h /\ obj'[h] # NoSession)
                  => IF op'.arg = "" THEN obj'[h].id \in minted' \ minted
                     ELSE obj'[h].id = op'.arg
            /\ (obj[h] # NoSession /\ obj'[h] # NoSession)
                  => obj'[h].id = obj[h].id
       /\ \A q \in Paths :
            files'[q] # files[q]
                => \E h \in Handles :
                     obj[h] # NoSession /\ q = get_file_path(obj[h].id)]_vars

\* A session opened as "./a" on an expired record has written its record
\* since, under the identifier it was opened with.
C12_Witness ==
    \E h \in Handles :
        /\ obj[h] # NoSession
        /\ obj[h].id = "./a"
        /\ now > SESSION_EXPIRY
        /\ obj[h].data = JObj([k \in {TrackedKey} |-> JStr(IdValue("./a"))])
        /\ files[get_file_path("./a")] = Record(obj[h].data, now)

\* The pieces of a line between its "&" characters, in order.
RECURSIVE Segments(_)
Segments(s) ==
    IF \A i \in 1..Len(s) : s[i] # "&" THEN <<s>>
    ELSE LET i == CHOOSE x \in 1..Len(s) :
                      s[x] = "&" /\ \A y \in 1..(x - 1) : s[y] # "&"
         IN  <<SubSeq(s, 1, i - 1)>> \o Segments(SubSeq(s, i + 1, Len(s)))

\* A piece holds a key=value pair when, after any "=" it starts with, it has
\* a non-empty key, then "=", then the value (which may be empty or hold "=").
IsPair(g, a, b) ==
    /\ 1 <= a /\ a < b /\ b <= Len(g)
    /\ \A i \in 1..(a - 1) : g[i] = "="
    /\ \A i \in a..(b - 1) : g[i] # "="
    /\ g[b] = "="
PairKey(g, a, b) == SubSeq(g, a, b - 1)
PairValue(g, a, b) == SubSeq(g, b + 1, Len(g))

\* The occurrences of key in the pieces: <<n, value>> for the n-th piece.
Occurrences(segs, key) ==
    { <<n, PairValue(segs[n], a, b)>> :
        <<n, a, b>> \in { x \in (1..Len(segs)) \X (1..MaxLine + 1) \X (1..MaxLine + 1) :
                           /\ IsPair(segs[x[1]], x[2], x[3])
                           /\ PairKey(segs[x[1]], x[2], x[3]) = key } }
PairKeys(segs) ==
    { PairKey(segs[x[1]], x[2], x[3]) :
        x \in { y \in (1..Len(segs)) \X (1..MaxLine + 1) \X (1..MaxLine + 1) :
                   IsPair(segs[y[1]], y[2], y[3]) } }

\* C13: the mapping parse_cgi_input returns has exactly the keys that occur
\* in a key=value pair of the line, each once, and holds for each key the
\* value of its last occurrence in the line.
C13_LastOccurrenceWins ==
    vout.called =>
        LET segs == Segments(vin.line)
        IN  /\ DOMAIN vout.r = PairKeys(segs)
            /\ \A key \in PairKeys(segs) :
                 \E o \in Occurrences(segs, key) :
                     /\ \A q \in Occurrences(segs, key) : q[1] <= o[1]
                     /\ vout.r[key] = o[2]

\* A line with the same key twice, with different values, has been parsed.
C13_Witness ==
    /\ vout.called
    /\ \E key \in DOMAIN vout.r :
         \E o, q \in Occurrences(Segments(vin.line), key) :
             o[1] < q[1] /\ o[2] # q[2] /\ o[2] # <<>> /\ vout.r[key] = q[2]

\* The record process g is about to write.
Pending(g) == save(obj[g], files)[get_file_path(obj[g].id)]

\* C14: nothing keeps a load from running while another process for the
\* same identifier is inside save(), after the ofstream has cut the file and
\* before the record is written; the loader then finds a file that is
\* neither the record as it was before that save nor the record the save
\* writes (it holds no bytes, and the load fails on it).
C14_LoadSeesTruncatedRecord ==
    [][\A h, g \in Handles :
          (/\ op'.name = "load" /\ op'.h = h /\ g # h
           /\ pc[g] = "saving" /\ get_file_path(obj[g].id) = op'.f
           /\ pre[g].clean /\ pre[g].before # Empty)
              => /\ op'.seen # pre[g].before
                 /\ op'.seen # Pending(g)
                 /\ op'.thrown]_vars

\* A load has just read the file while the other process, which found a
\* parseable record in it, has cut it and not yet written.
C14_Witness ==
    /\ op.name = "load"
    /\ op.seen = Empty
    /\ \E g \in Handles \ {op.h} :
         /\ pc[g] = "saving" /\ get_file_path(obj[g].id) = op.f
         /\ pre[g].clean /\ pre[g].before.t = "json"
         /\ Pending(g).t = "json"
         /\ Pending(g) # pre[g].before

(***************************************************************************)
(* Invocations for one identifier, one after another: each opens a         *)
(* Session, calls set and get in any order, and ends, while the clock      *)
(* moves forward at any point.  Every value stored is the numeral of the   *)
(* time it was stored at.  hist[f] remembers, of the record in file f,     *)
(*   lapsed   the last-accessed time it held when the clock last showed    *)
(*            it more than SESSION_EXPIRY seconds old,                     *)
(*   cleared  the last-accessed time it held when a load last found it     *)
(*            more than SESSION_EXPIRY seconds old,                        *)
(* each NoTime until that has happened.                                    *)
(***************************************************************************)
NoTime == 0 - 1
Stamp(t) == NatToDigits(t)
StampOf(value) == DigitsToNat(value)

ExpiryRecords ==
    { NoFile, Garbage,
      Record(EmptyObj, 0),
      Record(JObj([k \in {"last_calculation"} |-> JStr(Stamp(0))]), 0),
      Record(JObj([k \in Keys |-> JStr(Stamp(0))]), 0) }

InitExpiry ==
    /\ files \in {f \in [Paths -> ExpiryRecords] :
                    \A q \in Paths \ {get_file_path(i) : i \in CookieIds} :
                        f[q] = NoFile}
    /\ now = 0
    /\ minted = {}
    /\ session = [p \in Procs |-> NoSession]
    /\ pc = [p \in Procs |-> "idle"]
    /\ cookie = [p \in Procs |-> ""]
    /\ out = [p \in Procs |-> NoOut]
    /\ pre = [p \in Procs |-> NoPre]
    /\ obj = [h \in Handles |-> NoSession]
    /\ op = NoOp
    /\ hist = [f \in Paths |-> [lapsed |-> NoTime, cleared |-> NoTime]]
    /\ standing = [h \in Handles |-> "none"]
    /\ vin = NoCall
    /\ vout = NoCall

\* The record in f is more than SESSION_EXPIRY seconds old at time t.
Lapsed(f, t) == WellFormed(f) /\ t - StoredTime(f) > SESSION_EXPIRY

\* time(nullptr) returns more than it did.
ExpiryTick ==
    /\ \E d \in TickSteps :
         /\ TicksOf(now) < MaxTicks
         /\ now' = now + d
    /\ hist' = [f \in Paths |->
                  IF Lapsed(files[f], now')
                  THEN [hist[f] EXCEPT !.lapsed = StoredTime(files[f])]
                  ELSE hist[f]]
    /\ op' = NoOp
    /\ UNCHANGED <<files, minted, session, pc, cookie, out, pre, obj, standing,
                   vin, vout>>

\* Session session(session_id): the invocation begins.
ExpiryOpen ==
    /\ obj[1] = NoSession
    /\ \E session_id \in CookieIds, uuid \in Uuids, u \in Uninit(now) :
         \E r \in {Session(session_id, uuid, files, now, u)} :
            /\ obj' = IF r.thrown THEN obj ELSE [obj EXCEPT ![1] = r.s]
            /\ hist' = IF ~r.thrown /\ Lapsed(files[get_file_path(session_id)], now)
                       THEN [hist EXCEPT ![get_file_path(session_id)].cleared =
                               StoredTime(files[get_file_path(session_id)])]
                       ELSE hist
            /\ op' = [name |-> "open", h |-> 1, arg |-> session_id]
    /\ UNCHANGED <<files, now, minted, session, pc, cookie, out, pre, standing,
                   vin, vout>>

\* session.set(key, value), value the numeral of the time.
ExpirySet ==
    /\ obj[1] # NoSession
    /\ \E key \in Keys :
         \E r \in {set(obj[1], key, Stamp(now), files, now)} :
            /\ obj' = [obj EXCEPT ![1] = r.s]
            /\ files' = r.fs
            /\ op' = [name |-> "set", h |-> 1, key |-> key, thrown |-> r.thrown]
    /\ UNCHANGED <<now, minted, session, pc, cookie, out, pre, hist, standing,
                   vin, vout>>

\* session.get(key, "")
ExpiryGet ==
    /\ obj[1] # NoSession
    /\ \E key \in Keys :
         \E r \in {get(obj[1], key, <<>>, files, now)} :
            /\ obj' = [obj EXCEPT ![1] = r.s]
            /\ files' = r.fs
            /\ op' = [name |-> "get", h |-> 1, key |-> key, arg |-> <<>>,
                      ret |-> r.ret]
    /\ UNCHANGED <<now, minted, session, pc, cookie, out, pre, hist, standing,
                   vin, vout>>

\* The invocation ends.
ExpiryExit ==
    /\ obj[1] # NoSession
    /\ obj' = [obj EXCEPT ![1] = NoSession]
    /\ op' = NoOp
    /\ UNCHANGED <<files, now, minted, session, pc, cookie, out, pre, hist,
                   standing, vin, vout>>

NextExpiry ==
    \/ ExpiryTick
    \/ ExpiryOpen
    \/ ExpirySet
    \/ ExpiryGet
    \/ ExpiryExit

SpecExpiry == InitExpiry /\ [][NextExpiry]_vars

\* The values of the record in f were all stored after time t.
StoredAfter(f, t) ==
    WellFormed(f) =>
        \A k \in DOMAIN StoredData(f).o :
            StoredData(f).o[k].j = "str" => StampOf(StoredData(f).o[k].s) > t

\* C15 as stated: once the record of an identifier has been more than
\* SESSION_EXPIRY seconds old, no get on that identifier, in the invocation
\* then running or in a later one, returns a value stored before that, and a
\* set writes a record holding only values stored after it.
C15_ExpiredNeverServed ==
    [][/\ (op'.name = "get" /\ op'.ret # op'.arg)
            => StampOf(op'.ret) > hist[get_file_path(obj[1].id)].lapsed
       /\ (op'.name = "set" /\ ~op'.thrown)
            => StoredAfter(files'[get_file_path(obj[1].id)],
                           hist[get_file_path(obj[1].id)].lapsed)]_vars

\* C15, from the load on: once a load has found the record of an identifier
\* more than SESSION_EXPIRY seconds old, no get on that identifier, in that
\* invocation or in a later one, returns a value stored before that load,
\* and a set writes a record holding only values stored after it.
C15_ExpiredAtLoadNeverServed ==
    [][/\ (op'.name = "get" /\ op'.ret # op'.arg)
            => StampOf(op'.ret) > hist[get_file_path(obj[1].id)].cleared
       /\ (op'.name = "set" /\ ~op'.thrown)
            => StoredAfter(files'[get_file_path(obj[1].id)],
                           hist[get_file_path(obj[1].id)].cleared)]_vars

\* A get has returned a value from a session whose record, holding values
\* for both keys, a load had found expired; the record holds one value now.
C15_Witness ==
    /\ op.name = "get" /\ op.ret # op.arg
    /\ obj[1] # NoSession
    /\ hist[get_file_path(obj[1].id)].cleared = 0
    /\ StampOf(op.ret) > SESSION_EXPIRY
    /\ WellFormed(files[get_file_path(obj[1].id)])
    /\ DOMAIN StoredData(files[get_file_path(obj[1].id)]).o = {op.key}

====
